---------------------------- MODULE Spec2Model ----------------------------
(***************************************************************************)
(* Model of the FCM mixin of fcmpdfkit (lib/mixins/fcm.js):                *)
(*   - the multi-page rectangle tracker (startRect / stopRect and the      *)
(*     beforePageAdded / pageAdded callbacks), specification Spec;         *)
(*   - the row layout engine drawRowLabelTexts, specification LayoutSpec.  *)
(* Lengths are integers in an abstract unit; line widths are in tenths of  *)
(* a point (0.7 -> 7, 0.3 -> 3).                                           *)
(***************************************************************************)
EXTENDS Integers, Sequences, FiniteSets, TLC

VARIABLES
    rects,        \* this._fcmRectInfos: stack of records, top = last element
    hBefore,      \* this._fcmListenerBeforeAddPage is set (truthy)
    hAfter,       \* this._fcmListenerAddPage is set (truthy)
    nBefore,      \* number of handlers the emitter holds for 'beforePageAdded'
    nAfter,       \* number of handlers the emitter holds for 'pageAdded'
    x,            \* this.x, the cursor
    y,            \* this.y, the cursor
    page,         \* index of the current page
    noPageBreak,  \* this.noPageBreak
    draws,        \* the border paths stroked by the last call, in order
    life,         \* per startRect call: what it was given and on which pages it lived
    op,           \* the last public call: its name, console output and return value
    fillColor,    \* the document's current fill color
    lay           \* the locals of a running drawRowLabelTexts call

vars == <<rects, hBefore, hAfter, nBefore, nAfter, x, y, page, noPageBreak,
          draws, life, op, fillColor, lay>>

-----------------------------------------------------------------------------
(* Bounds of the model *)

MaxRects == 2        \* startRect calls in one behaviour
MaxBreaks == 2       \* pages added in one behaviour
PageMaxY == 5        \* page.maxY(): page height minus bottom margin
MarginTop == 1       \* page.margins.top, where the cursor lands on a new page
MarginLeft == 1      \* page.margins.left
PageUsefulW == 8     \* page.width - (margins.left + margins.right)
MarginRight == 1     \* page.margins.right
YStep == 2           \* height of one piece of content written between calls

PageWidth == MarginLeft + PageUsefulW + MarginRight

-----------------------------------------------------------------------------
(* Helpers *)

Min2(a, b) == IF a <= b THEN a ELSE b

Last(s) == s[Len(s)]

Front(s) == SubSeq(s, 1, Len(s) - 1)

\* JavaScript `a || b` on numbers: b when a is 0 (or was left undefined)
OrElse(a, b) == IF a = 0 THEN b ELSE a

\* a destructured parameter with a default value
Param(opts, f, d) == IF f \in DOMAIN opts THEN opts[f] ELSE d

LwDefault == 7       \* lineWidth = 0.7
LwFallback == 3      \* lineWidth || 0.3

-----------------------------------------------------------------------------
(* Border path primitives: each call is recorded with the arguments it got. *)
(* r2 is twice the corner radius the path uses: Math.min(r, 0.5*w, 0.5*h).  *)

\* variant: the radius is held to half the width only
ClampR2ToWidth(w, h, r) == Min2(2 * r, w)

ClampR2(w, h, r) == Min2(2 * r, Min2(w, h))

Stroke(kind, id, px, py, w, h, r, lw, pg) ==
    [kind |-> kind, id |-> id, x |-> px, y |-> py, w |-> w, h |-> h, r |-> r,
     r2 |-> ClampR2(w, h, r), lw |-> lw, page |-> pg]

roundedRectUp(id, px, py, w, h, r, lw, pg) ==
    Stroke("roundedRectUp", id, px, py, w, h, r, lw, pg)

roundedRectMid(id, px, py, w, h, r, lw, pg) ==
    Stroke("roundedRectMid", id, px, py, w, h, r, lw, pg)

roundedRectDown(id, px, py, w, h, r, lw, pg) ==
    Stroke("roundedRectDown", id, px, py, w, h, r, lw, pg)

roundedRect(id, px, py, w, h, r, lw, pg) ==
    Stroke("roundedRect", id, px, py, w, h, r, lw, pg)

-----------------------------------------------------------------------------
(* The page-break callbacks.  A document state d is a record with the      *)
(* fields rects, draws, x, y, page, noPageBreak.                           *)

\* a stroke of the callback, with the noPageBreak it was made under
Flagged(s, d) == s @@ [npb |-> d.noPageBreak]

RECURSIVE BeforeLoop(_, _, _, _)
\* the for-loop of onBeforePageAdded from record i on
BeforeLoop(rs, ds, i, d) ==
    IF i > Len(rs) THEN [rects |-> rs, draws |-> ds]
    ELSE LET info == rs[i]
             h == d.y - info.y
             ds1 == IF info.state = 1
                    THEN Append(ds, Flagged(roundedRectUp(info.id, info.x, info.y,
                                                          info.w, h, info.r,
                                                          info.lineWidth, d.page), d))
                    ELSE ds
             ds2 == IF info.state = 2
                    THEN Append(ds1, Flagged(roundedRectMid(info.id, info.x, info.y,
                                                            info.w, h, info.r,
                                                            info.lineWidth, d.page), d))
                    ELSE ds1
         IN BeforeLoop([rs EXCEPT ![i].state = 2], ds2, i + 1, d)

\* variant: a handler that sets the flag and does not put it back
onBeforePageAddedKeepsFlag(d) ==
    LET res == BeforeLoop(d.rects, d.draws, 1, [d EXCEPT !.noPageBreak = TRUE])
    IN [d EXCEPT !.rects = res.rects, !.draws = res.draws, !.noPageBreak = TRUE]

onBeforePageAdded(d) ==
    LET saved == d.noPageBreak
        res == BeforeLoop(d.rects, d.draws, 1, [d EXCEPT !.noPageBreak = TRUE])
    IN [d EXCEPT !.rects = res.rects, !.draws = res.draws, !.noPageBreak = saved]

\* variant: a pageAdded handler that leaves the records' y alone
onPageAddedKeepY(d) == d

\* variant: a pageAdded handler that also moves the records to the cursor x
onPageAddedMoveX(d) ==
    [d EXCEPT !.rects = [i \in 1..Len(d.rects) |->
                            [d.rects[i] EXCEPT !.y = d.y, !.x = d.x]]]

\* variant: a pageAdded handler that starts the records anew on the page
onPageAddedRestart(d) ==
    [d EXCEPT !.rects = [i \in 1..Len(d.rects) |->
                            [d.rects[i] EXCEPT !.y = d.y, !.state = 1]]]

onPageAdded(d) ==
    [d EXCEPT !.rects = [i \in 1..Len(d.rects) |-> [d.rects[i] EXCEPT !.y = d.y]]]

-----------------------------------------------------------------------------
(* The host document: emitting an event runs every registered handler, and *)
(* addPage emits 'beforePageAdded', starts the page with the cursor at the *)
(* top-left margin, then emits 'pageAdded'.                                *)

RECURSIVE EmitBefore(_, _)
EmitBefore(n, d) == IF n = 0 THEN d ELSE EmitBefore(n - 1, onBeforePageAdded(d))

RECURSIVE EmitAfter(_, _)
EmitAfter(n, d) == IF n = 0 THEN d ELSE EmitAfter(n - 1, onPageAdded(d))

addPage(d, nb, na) ==
    LET d1 == EmitBefore(nb, d)
        d2 == [d1 EXCEPT !.page = d1.page + 1, !.x = MarginLeft, !.y = MarginTop]
    IN EmitAfter(na, d2)

\* the document as a call finds it; the call's strokes are collected afresh
Doc == [rects |-> rects, draws |-> <<>>, x |-> x, y |-> y, page |-> page,
        noPageBreak |-> noPageBreak]

RECURSIVE Logged(_, _)
\* life with the strokes ds entered, each under the rectangle it was made for
Logged(lf, ds) ==
    IF ds = <<>> THEN lf
    ELSE LET s == Head(ds)
         IN Logged(IF s.id \in 1..Len(lf)
                   THEN [lf EXCEPT ![s.id].segs =
                            Append(@, [kind |-> s.kind, page |-> s.page])]
                   ELSE lf,
                   Tail(ds))

SetDoc(d) ==
    /\ rects' = d.rects
    /\ draws' = d.draws
    /\ x' = d.x
    /\ y' = d.y
    /\ page' = d.page
    /\ noPageBreak' = d.noPageBreak


-----------------------------------------------------------------------------
(* The tracker's public operations *)

usefulW == PageUsefulW

\* variant: addListener on every startRect
RegisterEveryCall(handle, n) == n + 1

\* addListener only when no handle is stored yet: the new number of handlers
Register(handle, n) == IF ~handle THEN n + 1 ELSE n

\* variant: a startRect that honours padding by insetting the record
NewRectPadded(id, opts, cx, cy) ==
    [id |-> id, state |-> 1,
     x |-> OrElse(Param(opts, "x", 0), cx) + Param(opts, "padding", 0),
     y |-> OrElse(Param(opts, "y", 0), cy) + Param(opts, "padding", 0),
     w |-> OrElse(Param(opts, "w", 0), usefulW) - 2 * Param(opts, "padding", 0),
     r |-> OrElse(Param(opts, "r", 0), 0),
     lineWidth |-> OrElse(Param(opts, "lineWidth", LwDefault), LwFallback)]

\* the record startRect pushes, given its options and the cursor
NewRect(id, opts, cx, cy) ==
    [id |-> id, state |-> 1,
     x |-> OrElse(Param(opts, "x", 0), cx),
     y |-> OrElse(Param(opts, "y", 0), cy),
     w |-> OrElse(Param(opts, "w", 0), usefulW),
     r |-> OrElse(Param(opts, "r", 0), 0),
     lineWidth |-> OrElse(Param(opts, "lineWidth", LwDefault), LwFallback)]

\* variant: Array.prototype.shift, taking the oldest record
PopOldest(rs) == [info |-> Head(rs), rest |-> Tail(rs)]

\* variant: a stopRect that empties the stack
PopAll(rs) == [info |-> Last(rs), rest |-> <<>>]

\* Array.prototype.pop: the element taken and the array left
Pop(rs) == [info |-> Last(rs), rest |-> Front(rs)]

\* variant: stopRect that ignores the record's state
CloseStrokeAlwaysWhole(info, cy, pg) ==
    <<roundedRect(info.id, info.x, info.y, info.w, cy - info.y, info.r,
                  info.lineWidth, pg)>>

\* variant: stopRect that takes the cursor as the height
CloseStrokeCursorHeight(info, cy, pg) ==
    IF info.state = 1
    THEN <<roundedRect(info.id, info.x, info.y, info.w, cy, info.r,
                       info.lineWidth, pg)>>
    ELSE <<roundedRectDown(info.id, info.x, info.y, info.w, cy, info.r,
                           info.lineWidth, pg)>>

\* the path stopRect strokes for the record it popped
CloseStroke(info, cy, pg) ==
    IF info.state = 1
    THEN <<roundedRect(info.id, info.x, info.y, info.w, cy - info.y, info.r,
                       info.lineWidth, pg)>>
    ELSE IF info.state = 2
    THEN <<roundedRectDown(info.id, info.x, info.y, info.w, cy - info.y, info.r,
                           info.lineWidth, pg)>>
    ELSE <<>>

StartOpts ==
    { [padding |-> 0],
      [x |-> 2, y |-> 2, w |-> 3, r |-> 2, lineWidth |-> 20, padding |-> 1],
      [y |-> 3, w |-> 4, r |-> 3, lineWidth |-> 0] }

Idle == lay.pc = "idle"

StartRect(opts) ==
    /\ Idle
    /\ Len(life) < MaxRects
    /\ hBefore' = TRUE
    /\ nBefore' = Register(hBefore, nBefore)
    /\ hAfter' = TRUE
    /\ nAfter' = Register(hAfter, nAfter)
    /\ rects' = Append(rects, NewRect(Len(life) + 1, opts, x, y))
    /\ life' = Append(life, [opts |-> opts, x0 |-> x, y0 |-> y, start |-> page,
                             stop |-> -1, segs |-> <<>>, popped |-> <<>>])
    /\ op' = [name |-> "startRect",
              msg |-> IF Param(opts, "padding", 0) # 0
                      THEN "TODO, padding not implemented" ELSE "",
              ret |-> "doc"]
    /\ draws' = <<>>
    /\ UNCHANGED <<x, y, page, noPageBreak, fillColor, lay>>

\* variant: stopRect that throws on an empty stack, as its @throws tag says
StopRectThrows ==
    /\ Idle
    /\ rects = <<>>
    /\ op' = [name |-> "stopRect", msg |-> "", ret |-> "throw"]
    /\ draws' = <<>>
    /\ UNCHANGED <<rects, life, hBefore, hAfter, nBefore, nAfter, x, y, page,
                   noPageBreak, fillColor, lay>>

StopRect ==
    /\ Idle
    /\ IF rects = <<>>
       THEN /\ op' = [name |-> "stopRect",
                      msg |-> "stopRect: Close Rect without startRect",
                      ret |-> "doc"]
            /\ draws' = <<>>
            /\ UNCHANGED <<rects, life>>
       ELSE LET p == Pop(rects)
                info == p.info
            IN /\ rects' = p.rest
               /\ draws' = CloseStroke(info, y, page)
               /\ life' = [Logged(life, draws') EXCEPT
                               ![info.id].stop = page,
                               ![info.id].popped = <<[info EXCEPT !.state = 0]>>]
               /\ op' = [name |-> "stopRect", msg |-> "", ret |-> "doc"]
    /\ UNCHANGED <<hBefore, hAfter, nBefore, nAfter, x, y, page, noPageBreak, fillColor, lay>>

\* doc.addPage(), called by the user or by the text engine at the page's end
AddPage ==
    /\ Idle
    /\ page < MaxBreaks
    /\ SetDoc(addPage(Doc, nBefore, nAfter))
    /\ life' = Logged(life, draws')
    /\ op' = [name |-> "addPage", msg |-> "", ret |-> "doc"]
    /\ UNCHANGED <<hBefore, hAfter, nBefore, nAfter, fillColor, lay>>

\* variant: a page is also added when exactly minSize is left
NeedsPageOrEqual(cy, minSize) == (PageMaxY - cy) <= minSize

NeedsPage(cy, minSize) == (PageMaxY - cy) < minSize

\* the minSize arguments: the height of one piece of content, and a whole page
MinSizes == {YStep, PageMaxY - MarginTop}

TryAddPage(minSize) ==
    /\ Idle
    /\ page < MaxBreaks
    /\ SetDoc(IF NeedsPage(y, minSize) THEN addPage(Doc, nBefore, nAfter) ELSE Doc)
    /\ life' = Logged(life, draws')
    /\ op' = [name |-> "tryAddPage", msg |-> "", ret |-> "doc", minSize |-> minSize]
    /\ UNCHANGED <<hBefore, hAfter, nBefore, nAfter, fillColor, lay>>

\* incY(YStep): content was written and the cursor moved down the page
IncY ==
    /\ Idle
    /\ y + YStep <= PageMaxY
    /\ y' = y + YStep
    /\ draws' = <<>>
    /\ op' = [name |-> "incY", msg |-> "", ret |-> "doc"]
    /\ UNCHANGED <<rects, hBefore, hAfter, nBefore, nAfter, x, page, noPageBreak,
                   life, fillColor, lay>>

\* doc.noPageBreak = v: the caller opens or ends a suppression scope of its own
SetNoPageBreak ==
    /\ Idle
    /\ noPageBreak' = ~noPageBreak
    /\ draws' = <<>>
    /\ op' = [name |-> "noPageBreak", msg |-> "", ret |-> "none"]
    /\ UNCHANGED <<rects, hBefore, hAfter, nBefore, nAfter, x, y, page, life,
                   fillColor, lay>>

\* initFcm, on a fresh document with the cursor at the top-left margin
Init ==
    /\ rects = <<>>
    /\ hBefore = FALSE
    /\ hAfter = FALSE
    /\ nBefore = 0
    /\ nAfter = 0
    /\ x = MarginLeft
    /\ y = MarginTop
    /\ page = 0
    /\ noPageBreak = FALSE
    /\ draws = <<>>
    /\ life = <<>>
    /\ op = [name |-> "new", msg |-> "", ret |-> "doc"]
    /\ fillColor = "black"
    /\ lay = [pc |-> "idle"]

Next ==
    \/ \E opts \in StartOpts : StartRect(opts)
    \/ StopRect
    \/ AddPage
    \/ \E m \in MinSizes : TryAddPage(m)
    \/ IncY
    \/ SetNoPageBreak

Spec == Init /\ [][Next]_vars


-----------------------------------------------------------------------------
(* drawRowLabelTexts: options, items and the measurement pass.             *)
(* Item widths (it.w) and the paint cursor cX are kept in 1/Den-ths of the *)
(* unit, Den being a common multiple of every possible auto-width count,   *)
(* so that remainW / countAuto is exact; everything else is in units.      *)

MaxItems == 3        \* longest item list given to drawRowLabelTexts

DefaultItemW == 50   \* options?.defaultItemW ?? 50
DefaultPadding == 5  \* options?.padding ?? 5

RECURSIVE Gcd(_, _)
Gcd(a, b) == IF b = 0 THEN a ELSE Gcd(b, a % b)

RECURSIVE LcmUpTo(_)
LcmUpTo(n) == IF n <= 1 THEN 1 ELSE (LcmUpTo(n - 1) * n) \div Gcd(LcmUpTo(n - 1), n)

Den == LcmUpTo(MaxItems)

Max2(a, b) == IF a >= b THEN a ELSE b

NoOptions == [undefined |-> TRUE]

\* variant: the usable width of the page, wherever the block starts
DefaultWUsable(ox) == PageUsefulW

\* this.page.width - (_options.x + this.page.margins.right)
DefaultW(ox) == PageWidth - (ox + MarginRight)

\* the _options object and hasLabel, built from the caller's options
MakeOptions(options, cx, cy) ==
    LET ox == OrElse(Param(options, "x", 0), cx)
        oy == OrElse(Param(options, "y", 0), cy)
    IN [hasLabel |-> ~Param(options, "noLabel", FALSE),
        defaultItemW |-> Param(options, "defaultItemW", DefaultItemW),
        padding |-> Param(options, "padding", DefaultPadding),
        x |-> ox,
        y |-> oy,
        w |-> OrElse(Param(options, "w", 0), DefaultW(ox)),
        divider |-> Param(options, "divider", FALSE),
        box |-> "box" \in DOMAIN options,
        radius |-> IF "box" \in DOMAIN options THEN options.box.radius ELSE 0,
        ibp |-> IF "itemBox" \in DOMAIN options THEN options.itemBox.padding ELSE 0,
        ibActive |-> IF "itemBox" \in DOMAIN options THEN options.itemBox.active
                     ELSE FALSE]

\* padding + itemBox.padding * 2, the allowance taken after each item
Gap(o) == o.padding + o.ibp * 2

NewLineInfo == [remainW |-> 0, countAuto |-> 0, maxH |-> 0]

\* `!it.w`: the item has no width of its own
IsAuto(item) == Param(item, "w", 0) = 0

\* the width an item enters the line assignment with
ResolvedW(item, o) ==
    IF IsAuto(item) THEN o.defaultItemW
    ELSE IF item.w > o.w THEN o.w ELSE item.w

\* variant: an item that exactly fills the line does not fit
FitsStrictly(remaining, w) == remaining - w > 0

\* `usefulW - it.w < 0` starts a new line: the item fits when this is false
Fits(remaining, w) == ~(remaining - w < 0)

\* one turn of the first loop: item L.i is assigned its line
MeasureItem(L) ==
    LET o == L.o
        item == L.itens[L.i]
        w == ResolvedW(item, o)
        newLine == ~Fits(L.usefulW, w)
        line1 == IF newLine THEN L.line + 1 ELSE L.line
        lines1 == IF newLine
                  THEN Append([L.linesInfo EXCEPT ![L.line + 1].remainW = L.usefulW],
                              NewLineInfo)
                  ELSE L.linesInfo
        u0 == IF newLine THEN o.w - (o.padding + o.ibp * 2) ELSE L.usefulW
        u1 == (u0 - w) - (o.padding + o.ibp * 2)
        lines2 == IF IsAuto(item)
                  THEN [lines1 EXCEPT ![line1 + 1].countAuto = @ + 1]
                  ELSE lines1
        it == [autoW |-> IsAuto(item), line |-> line1, w |-> w * Den,
               color |-> Param(item, "color", "black"), hLabel |-> 0, hText |-> 0]
    IN [L EXCEPT !.linesInfo = lines2, !.line = line1, !.usefulW = u1,
                 !.items = Append(@, it), !.i = @ + 1]

\* variant: the whole leftover goes to every auto-width item
AutoShareWhole(remainW, countAuto) == remainW * Den

\* linesInfo[it.line].remainW / linesInfo[it.line].countAuto, in 1/Den-ths
AutoShare(remainW, countAuto) == (remainW * Den) \div countAuto

\* variant: the row height follows the text alone, label or not
ResolveItemTextOnly(L, ht, hl) ==
    LET o == L.o
        it0 == L.items[L.i]
        li0 == L.linesInfo[it0.line + 1]
        w1 == IF it0.autoW THEN it0.w + AutoShare(li0.remainW, li0.countAuto)
              ELSE it0.w
        maxH1 == IF li0.maxH < ht THEN ht ELSE li0.maxH
        it1 == [it0 EXCEPT !.w = w1, !.hText = ht,
                           !.hLabel = IF o.hasLabel THEN hl ELSE 0]
    IN [L EXCEPT !.items[L.i] = it1,
                 !.linesInfo[it0.line + 1].maxH = maxH1,
                 !.dividers = IF o.divider THEN @ + 1 ELSE @,
                 !.i = @ + 1]

\* one turn of the second loop: item L.i gets its final width and its heights
\* (ht and hl are what heightOfString returns for its text and its label)
ResolveItem(L, ht, hl) ==
    LET o == L.o
        it0 == L.items[L.i]
        li0 == L.linesInfo[it0.line + 1]
        w1 == IF it0.autoW THEN it0.w + AutoShare(li0.remainW, li0.countAuto)
              ELSE it0.w
        maxH1 == IF li0.maxH < ht THEN ht ELSE li0.maxH
        withLabel == ht + hl + o.padding + o.ibp
        maxH2 == IF o.hasLabel /\ maxH1 < withLabel THEN withLabel ELSE maxH1
        it1 == [it0 EXCEPT !.w = w1, !.hText = ht,
                           !.hLabel = IF o.hasLabel THEN hl ELSE 0]
    IN [L EXCEPT !.items[L.i] = it1,
                 !.linesInfo[it0.line + 1].maxH = maxH2,
                 !.dividers = IF o.divider THEN @ + 1 ELSE @,
                 !.i = @ + 1]

-----------------------------------------------------------------------------
(* drawRowLabelTexts: the paint pass *)

BoxLw == 3           \* .lineWidth(0.3) of the block border

\* the border segment stroked before a page break, and the box state after it
BoxBreakStroke(L, cY, pg) ==
    LET b == L.boxInfo
        o == L.o
    IN IF b.state = 1
       THEN [draws |-> <<roundedRectUp(0, b.x, b.y, o.w, cY - b.y, o.radius, BoxLw, pg)>>,
             state |-> 2]
       ELSE IF b.state = 2
       THEN [draws |-> <<roundedRectMid(0, b.x, b.y, o.w, cY - b.y, o.radius, BoxLw, pg)>>,
             state |-> 2]
       ELSE [draws |-> <<>>, state |-> b.state]

\* the closing stroke of the block border after the last row
BoxCloseStroke(L, cY, pg) ==
    LET b == L.boxInfo
        o == L.o
    IN IF b.state = 1
       THEN <<roundedRect(0, b.x, b.y, o.w, cY - b.y, o.radius, BoxLw, pg)>>
       ELSE IF b.state = 2
       THEN <<roundedRectDown(0, b.x, b.y, o.w, cY - b.y, o.radius, BoxLw, pg)>>
       ELSE <<>>

\* variant: the offset on the rows after the first, none on the first
RowTopAfterBreakSwapped(cur, top, o) ==
    IF cur > 0 THEN top + o.padding + o.ibp * 2 ELSE top

\* cY after this.addPage(), top being this.y on the new page
RowTopAfterBreak(cur, top, o) ==
    IF cur > 0 THEN top ELSE top + o.padding + o.ibp * 2

\* variant: only a row that starts below the page asks for a new page
OverflowsFromTop(maxH, cY) == cY > PageMaxY

\* linesInfo[currentLine].maxH + cY > this.page.maxY()
Overflows(maxH, cY) == maxH + cY > PageMaxY

\* one turn of the third loop: item L.i is painted, after a page break when
\* its row does not fit; the result is the locals and the document
PaintItem(L, d, nb, na) ==
    LET o == L.o
        it == L.items[L.i]
        newRow == it.line # L.currentLine
        cX1 == IF newRow THEN (o.x + o.padding + o.ibp * 2) * Den ELSE L.cX
        cY1 == IF newRow
               THEN L.cY + L.linesInfo[L.currentLine + 1].maxH + o.padding + o.ibp * 2
               ELSE L.cY
        cur == it.line
        over == Overflows(L.linesInfo[cur + 1].maxH, cY1)
        bs == IF over /\ cur > 0 THEN BoxBreakStroke(L, cY1, d.page)
              ELSE [draws |-> <<>>, state |-> L.boxInfo.state]
        d1 == IF over
              THEN addPage([d EXCEPT !.draws = @ \o bs.draws], nb, na)
              ELSE d
        box1 == IF over THEN [L.boxInfo EXCEPT !.state = bs.state, !.y = d1.y]
                ELSE L.boxInfo
        cY2 == IF ~over THEN cY1 ELSE RowTopAfterBreak(cur, d1.y, o)
        \* this.text(...) leaves the cursor under the text it wrote
        d2 == [d1 EXCEPT !.y = cY2 + it.hLabel + it.hText]
    IN [lay |-> [L EXCEPT !.cX = cX1 + it.w + (o.padding + o.ibp * 2) * Den,
                          !.cY = cY2,
                          !.currentLine = cur,
                          !.boxInfo = box1,
                          !.breaks = IF over THEN @ + 1 ELSE @,
                          !.painted = Append(@, [page |-> d1.page, x |-> cX1,
                                                 y |-> cY2, line |-> cur]),
                          !.i = @ + 1],
        doc |-> d2,
        color |-> it.color]

-----------------------------------------------------------------------------
(* drawRowLabelTexts as steps: the call, the three loops and the return idle *)

\* the document during a drawRowLabelTexts call: its strokes add up
DocL == [rects |-> rects, draws |-> draws, x |-> x, y |-> y, page |-> page,
         noPageBreak |-> noPageBreak]

ItemWs == {2, 4, 9}

\* the item of width 4 has a color of its own
Items ==
    {[text |-> "t"]}
    \cup {IF n = 4 THEN [text |-> "t", w |-> n, color |-> "red"]
          ELSE [text |-> "t", w |-> n] : n \in ItemWs}

RECURSIVE SeqsUpTo(_, _)
SeqsUpTo(S, n) ==
    IF n = 0 THEN {<<>>}
    ELSE SeqsUpTo(S, n - 1) \cup
         {Append(q, e) : q \in {q \in SeqsUpTo(S, n - 1) : Len(q) = n - 1}, e \in S}

ItemLists == SeqsUpTo(Items, MaxItems)

GridOptions ==
    {[w |-> bw, padding |-> p, defaultItemW |-> dw,
      itemBox |-> [padding |-> ibp, active |-> ibp > 0, radius |-> 0]] :
        bw \in {6, 8}, p \in {0, 1}, dw \in {2, 3}, ibp \in {0, 1}}

\* the grid's wider blocks, for the options that only matter to the paint pass
PaintOptions == {g \in GridOptions : g.w = 6 /\ g.defaultItemW = 2}

\* drawRowLabelTexts(['A','B','C'], {defaultItemW:100, w:250, padding:10}), in tens
ExampleOptions == [w |-> 25, defaultItemW |-> 10, padding |-> 1]

ExampleItems == <<[text |-> "A"], [text |-> "B"], [text |-> "C"]>>

\* options without w, the block starting at the cursor or at a given x
NoWidthOptions ==
    { [padding |-> 1, defaultItemW |-> 2],
      [x |-> 3, padding |-> 1, defaultItemW |-> 2] }

OptionSet ==
    GridOptions
    \cup {o @@ [noLabel |-> TRUE] : o \in PaintOptions}
    \cup {o @@ [box |-> [radius |-> 1]] : o \in PaintOptions}
    \cup {o @@ [box |-> [radius |-> 1], noLabel |-> TRUE] : o \in PaintOptions}
    \cup {ExampleOptions}
    \cup NoWidthOptions

TextHeights == {1, 2}

LabelHeights == {1}

\* drawRowLabelTexts(itens, options) up to the first loop
DrawStart(itens, options) ==
    /\ noPageBreak' = TRUE
    /\ draws' = <<>>
    /\ IF options = NoOptions
       THEN \* options.divider of undefined: a TypeError leaves the call
            /\ lay' = [pc |-> "idle", saved |-> noPageBreak]
            /\ op' = [name |-> "drawRowLabelTexts", msg |-> "TypeError", ret |-> "throw"]
            /\ UNCHANGED <<x, y>>
       ELSE LET o == MakeOptions(options, x, y)
            IN /\ lay' = [pc |-> "measure", itens |-> itens, options |-> options,
                          o |-> o,
                          saved |-> noPageBreak, page0 |-> page, fill0 |-> fillColor,
                          x0 |-> x,
                          boxInfo |-> [state |-> IF o.box THEN 1 ELSE 0,
                                       x |-> o.x, y |-> o.y],
                          usefulW |-> o.w - o.padding,
                          items |-> <<>>, linesInfo |-> <<NewLineInfo>>, line |-> 0,
                          i |-> 1, dividers |-> 0,
                          cX |-> 0, cY |-> 0, currentLine |-> 0, breaks |-> 0,
                          painted |-> <<>>]
               /\ x' = o.x
               /\ y' = o.y
               /\ op' = [name |-> "drawRowLabelTexts", msg |-> "", ret |-> "running"]
    /\ UNCHANGED <<rects, hBefore, hAfter, nBefore, nAfter, page, life, fillColor>>

\* one call of drawRowLabelTexts on the document
DrawRowLabelTexts ==
    /\ Idle
    /\ op.name # "drawRowLabelTexts"
    /\ \E itens \in ItemLists, options \in OptionSet \cup {NoOptions} :
          DrawStart(itens, options)

\* for (const item of itens) { ... }
Measure ==
    /\ lay.pc = "measure"
    /\ lay.i <= Len(lay.itens)
    /\ lay' = MeasureItem(lay)
    /\ UNCHANGED <<rects, hBefore, hAfter, nBefore, nAfter, x, y, page, noPageBreak,
                   draws, life, op, fillColor>>

\* linesInfo[line].remainW = usefulW, after the first loop
MeasureEnd ==
    /\ lay.pc = "measure"
    /\ lay.i > Len(lay.itens)
    /\ lay' = [lay EXCEPT !.linesInfo[lay.line + 1].remainW = lay.usefulW,
                          !.pc = "resolve", !.i = 1]
    /\ UNCHANGED <<rects, hBefore, hAfter, nBefore, nAfter, x, y, page, noPageBreak,
                   draws, life, op, fillColor>>

\* for (const it of _items) { ... }, the widths and heights
Resolve ==
    /\ lay.pc = "resolve"
    /\ lay.i <= Len(lay.items)
    /\ \E ht \in TextHeights, hl \in LabelHeights : lay' = ResolveItem(lay, ht, hl)
    /\ fillColor' = IF lay.o.hasLabel THEN lay.items[lay.i].color ELSE fillColor
    /\ UNCHANGED <<rects, hBefore, hAfter, nBefore, nAfter, x, y, page, noPageBreak,
                   draws, life, op>>

\* variant: the second loop is left after its first item
ResolveEndEarly ==
    /\ lay.pc = "resolve"
    /\ lay.i > 1 \/ lay.items = <<>>
    /\ lay' = [lay EXCEPT !.pc = "paint", !.i = 1,
                          !.cX = (lay.o.x + lay.o.padding + lay.o.ibp * 2) * Den,
                          !.cY = lay.o.y + lay.o.padding + lay.o.ibp * 2,
                          !.currentLine = 0]
    /\ UNCHANGED <<rects, hBefore, hAfter, nBefore, nAfter, x, y, page, noPageBreak,
                   draws, life, op, fillColor>>

\* let cX = ..., cY = ..., currentLine = 0, before the third loop
ResolveEnd ==
    /\ lay.pc = "resolve"
    /\ lay.i > Len(lay.items)
    /\ lay' = [lay EXCEPT !.pc = "paint", !.i = 1,
                          !.cX = (lay.o.x + lay.o.padding + lay.o.ibp * 2) * Den,
                          !.cY = lay.o.y + lay.o.padding + lay.o.ibp * 2,
                          !.currentLine = 0]
    /\ UNCHANGED <<rects, hBefore, hAfter, nBefore, nAfter, x, y, page, noPageBreak,
                   draws, life, op, fillColor>>

\* for (const it of _items) { ... }, the painting
Paint ==
    /\ lay.pc = "paint"
    /\ lay.i <= Len(lay.items)
    /\ LET res == PaintItem(lay, DocL, nBefore, nAfter)
       IN /\ lay' = res.lay
          /\ SetDoc(res.doc)
          /\ fillColor' = res.color
          /\ life' = Logged(life, SubSeq(res.doc.draws, Len(draws) + 1,
                                         Len(res.doc.draws)))
    /\ UNCHANGED <<hBefore, hAfter, nBefore, nAfter, op>>

\* variant: a return that leaves the fill color of the last item
PaintEndKeepColor ==
    /\ lay.pc = "paint"
    /\ lay.i > Len(lay.items)
    /\ LET cY == lay.cY + lay.linesInfo[lay.currentLine + 1].maxH
       IN /\ draws' = draws \o BoxCloseStroke(lay, cY, page)
          /\ x' = lay.o.x
          /\ y' = cY
          /\ lay' = [lay EXCEPT !.pc = "done", !.cY = cY]
    /\ noPageBreak' = lay.saved
    /\ op' = [name |-> "drawRowLabelTexts", msg |-> "", ret |-> "doc"]
    /\ UNCHANGED <<rects, hBefore, hAfter, nBefore, nAfter, page, life, fillColor>>

\* the close of the block border and the return
PaintEnd ==
    /\ lay.pc = "paint"
    /\ lay.i > Len(lay.items)
    /\ LET cY == lay.cY + lay.linesInfo[lay.currentLine + 1].maxH
       IN /\ draws' = draws \o BoxCloseStroke(lay, cY, page)
          /\ x' = lay.o.x
          /\ y' = cY
          /\ lay' = [lay EXCEPT !.pc = "done", !.cY = cY]
    /\ noPageBreak' = lay.saved
    /\ fillColor' = "black"
    /\ op' = [name |-> "drawRowLabelTexts", msg |-> "", ret |-> "doc"]
    /\ UNCHANGED <<rects, hBefore, hAfter, nBefore, nAfter, page, life>>

\* startRect({r: 3}): the options of the rectangle open around the block
OpenOpts == [r |-> 3, padding |-> 0]

\* a document some content was written to, with or without an open rectangle
LayoutInit ==
    /\ hBefore \in BOOLEAN
    /\ hAfter = hBefore
    /\ y = (IF hBefore THEN MarginTop + YStep ELSE MarginTop)
    /\ nBefore = (IF hBefore THEN 1 ELSE 0)
    /\ nAfter = nBefore
    /\ x = (IF hBefore THEN MarginLeft + 1 ELSE MarginLeft)
    /\ rects = IF hBefore THEN <<NewRect(1, OpenOpts, MarginLeft, MarginTop)>>
               ELSE <<>>
    /\ life = IF hBefore
              THEN <<[opts |-> OpenOpts, x0 |-> MarginLeft, y0 |-> MarginTop,
                      start |-> 0,
                      stop |-> -1, segs |-> <<>>, popped |-> <<>>]>>
              ELSE <<>>
    /\ page = 0
    /\ noPageBreak = FALSE
    /\ draws = <<>>
    /\ fillColor = (IF hBefore THEN "blue" ELSE "black")
    /\ op = [name |-> "new", msg |-> "", ret |-> "doc"]
    /\ lay = [pc |-> "idle"]

LayoutNext ==
    \/ DrawRowLabelTexts
    \/ Measure
    \/ MeasureEnd
    \/ Resolve
    \/ ResolveEnd
    \/ Paint
    \/ PaintEnd

LayoutSpec == LayoutInit /\ [][LayoutNext]_vars

-----------------------------------------------------------------------------
(* Properties of the rectangle tracker, checked under Spec *)

Closed(id) == life[id].stop # -1

\* page breaks that happened while rectangle id was open
Breaks(id) == life[id].stop - life[id].start

OpenIds == {rects[i].id : i \in 1..Len(rects)}

WarnMsg == "stopRect: Close Rect without startRect"

\* C1: a rectangle closed after N >= 1 page breaks got, in order, one top
\* segment at the first break, one middle segment at each later break and one
\* bottom segment at stopRect, and never a complete rounded rectangle.
C1_SegmentSequence ==
    \A id \in 1..Len(life) :
        (Closed(id) /\ Breaks(id) >= 1) =>
            LET sg == life[id].segs
                N == Breaks(id)
            IN /\ Len(sg) = N + 1
               /\ sg[1] = [kind |-> "roundedRectUp", page |-> life[id].start]
               /\ \A k \in 2..N :
                     sg[k] = [kind |-> "roundedRectMid", page |-> life[id].start + k - 1]
               /\ sg[N + 1] = [kind |-> "roundedRectDown", page |-> life[id].stop]

\* a rectangle closed after two page breaks while another one is still open
C1_Witness ==
    \E id \in 1..Len(life) : Closed(id) /\ Breaks(id) = 2 /\ rects # <<>>

\* C2 as claimed: a rectangle closed with no page break in between gets one
\* complete rounded rectangle whose height is the cursor's net vertical
\* displacement between startRect and stopRect, whatever y startRect was given.
C2_HeightIsCursorDisplacement ==
    \A id \in 1..Len(life) :
        (Closed(id) /\ Breaks(id) = 0) =>
            /\ life[id].segs = <<[kind |-> "roundedRect", page |-> life[id].start]>>
            /\ (op.name = "stopRect" /\ draws # <<>> /\ draws[1].id = id)
                  => draws[1].h = y - life[id].y0

\* the y a rectangle starts at: the y option when given and not 0, else the cursor
StartY(id) ==
    IF "y" \in DOMAIN life[id].opts /\ life[id].opts.y # 0
    THEN life[id].opts.y ELSE life[id].y0

\* C2 amended: a rectangle closed with no page break in between gets exactly
\* one complete rounded rectangle and no partial segment, and its height is the
\* cursor y at stopRect minus the y the rectangle started at (the y option, or
\* the cursor y at startRect when y is omitted or 0).
C2_HeightFromStartY ==
    \A id \in 1..Len(life) :
        (Closed(id) /\ Breaks(id) = 0) =>
            /\ life[id].segs = <<[kind |-> "roundedRect", page |-> life[id].start]>>
            /\ (op.name = "stopRect" /\ draws # <<>> /\ draws[1].id = id)
                  => /\ Len(draws) = 1
                     /\ draws[1].kind = "roundedRect"
                     /\ draws[1].y = StartY(id)
                     /\ draws[1].h = y - StartY(id)

\* stopRect has just closed, on its first page, a rectangle given an explicit
\* y that was not the cursor y, after the cursor had moved
C2_Witness ==
    /\ op.name = "stopRect"
    /\ draws # <<>>
    /\ LET id == draws[1].id
       IN /\ Breaks(id) = 0
          /\ StartY(id) # life[id].y0
          /\ y # life[id].y0

\* C3: after every page break at or after the first startRect, every record
\* still in the stack has state 2 and y equal to the cursor y of the new page,
\* the page's content start.
C3_AfterBreak ==
    [][(page' = page + 1 /\ hBefore) =>
          /\ y' = MarginTop
          /\ \A i \in 1..Len(rects') : rects'[i].state = 2 /\ rects'[i].y = y']_vars

\* a second page break with two rectangles open, one of them started at an
\* explicit y
C3_Witness ==
    /\ op.name = "addPage"
    /\ page = 2
    /\ Len(rects) = 2
    /\ \E i \in 1..2 : StartY(rects[i].id) # life[rects[i].id].y0

C5_RegisteredOnce ==
    /\ nBefore = IF Len(life) >= 1 THEN 1 ELSE 0
    /\ nAfter = IF Len(life) >= 1 THEN 1 ELSE 0
    /\ op.name = "addPage" =>
          /\ Len(draws) = Len(rects)
          /\ \A i \in 1..Len(rects) : draws[i].id = rects[i].id

\* a page break after the stack emptied and was refilled by a second startRect
C5_Witness ==
    /\ op.name = "addPage"
    /\ Len(life) = 2
    /\ Closed(1)
    /\ Len(rects) = 1
    /\ Len(draws) = 1

\* the largest of a non-empty set of numbers
MaxOf(S) == CHOOSE m \in S : \A n \in S : n <= m

\* C6: stopRect on a non-empty stack removes the most recently opened rectangle
\* that is still open, leaves the others in place, and strokes the closing path
\* with that record's own x, y, w, r, lineWidth and state.
C6_ClosesNewest ==
    [][(rects # <<>> /\ op'.name = "stopRect") =>
          LET top == rects[Len(rects)]
          IN /\ top.id = MaxOf(OpenIds)
             /\ rects' = SubSeq(rects, 1, Len(rects) - 1)
             /\ Len(draws') = 1
             /\ draws'[1].id = top.id
             /\ draws'[1].kind = (IF top.state = 1 THEN "roundedRect"
                                  ELSE "roundedRectDown")
             /\ draws'[1].x = top.x
             /\ draws'[1].y = top.y
             /\ draws'[1].w = top.w
             /\ draws'[1].r = top.r
             /\ draws'[1].lw = top.lineWidth
             /\ life'[top.id].stop = page]_vars

\* two nested rectangles with different options, closed by two consecutive
\* stopRect calls: the second call closed the one opened first
C6_Witness ==
    /\ op.name = "stopRect"
    /\ Len(life) = 2
    /\ Closed(1)
    /\ Closed(2)
    /\ life[1].opts # life[2].opts
    /\ life[2].start < life[1].stop
    /\ draws # <<>>
    /\ draws[1].id = 1

-----------------------------------------------------------------------------
(* Properties of the measurement pass, checked under LayoutSpec *)

\* both loops of the measurement pass are over
Measured == lay.pc \in {"paint", "done"}

\* the items assigned to row l
RowItems(l) == {k \in 1..Len(lay.items) : lay.items[k].line = l}

AutoItems(l) == {k \in RowItems(l) : lay.items[k].autoW}

RECURSIVE SumW(_)
\* the sum of the widths of the items S, in 1/Den-ths
SumW(S) ==
    IF S = {} THEN 0
    ELSE LET k == CHOOSE k \in S : TRUE
         IN lay.items[k].w + SumW(S \ {k})

Rows == 0..lay.line

\* C7 as claimed, counting the least padding the claim can mean (the padding
\* before the row's first item and the gaps between its items, none after the
\* last item): on every row the final widths plus that padding stay within
\* the block width.
C7_RowWithinBlock ==
    Measured =>
        \A l \in Rows :
            RowItems(l) # {} =>
                lay.o.padding * Den + SumW(RowItems(l))
                    + (Cardinality(RowItems(l)) - 1) * Gap(lay.o) * Den
                  <= lay.o.w * Den

\* C8: after the measurement pass all auto-width items of a row have the same
\* final width, and it is defaultItemW plus the row's leftover width divided
\* by the number of auto-width items on the row.
C8_AutoWidthsEqual ==
    Measured =>
        \A l \in Rows :
            \A i \in AutoItems(l) :
                /\ \A j \in AutoItems(l) : lay.items[i].w = lay.items[j].w
                /\ lay.items[i].w * Cardinality(AutoItems(l))
                     = (lay.o.defaultItemW * Cardinality(AutoItems(l))
                        + lay.linesInfo[l + 1].remainW) * Den

\* a row with several auto-width items whose leftover does not divide evenly
\* in whole units, next to a fixed-width item
C8_Witness ==
    /\ Measured
    /\ \E l \in Rows :
          /\ Cardinality(AutoItems(l)) >= 2
          /\ AutoItems(l) # RowItems(l)
          /\ lay.linesInfo[l + 1].remainW % Cardinality(AutoItems(l)) # 0

\* C9 as claimed: on every row with an auto-width item the final widths plus
\* the padding taken for each item add up to the usable row width, block width
\* minus padding, on the first row and on every later row alike.
C9_RowTotalIsUsable ==
    Measured =>
        \A l \in Rows :
            AutoItems(l) # {} =>
                SumW(RowItems(l)) + Cardinality(RowItems(l)) * Gap(lay.o) * Den
                  = (lay.o.w - lay.o.padding) * Den

\* the width the claim calls resolved: the item's own w, at most the block
\* width, or defaultItemW for an item without w
ClaimedW(item, o) ==
    IF "w" \in DOMAIN item /\ item.w # 0
    THEN (IF item.w > o.w THEN o.w ELSE item.w)
    ELSE o.defaultItemW

\* C10: in the first loop an item stays on the current row exactly when the
\* row's remaining width minus the item's resolved width is >= 0; otherwise the
\* current row is closed with its leftover recorded and the item is the first
\* of a new row.  The call with three width-less items, defaultItemW 100, block
\* width 250 and padding 10 (here in tens) assigns rows 0, 0, 1.
C10_FitRule ==
    /\ [][(lay.pc = "measure" /\ lay'.pc = "measure") =>
            LET it == lay'.items[lay.i]
                w == ClaimedW(lay.itens[lay.i], lay.o)
            IN /\ Len(lay'.items) = lay.i
               /\ IF lay.usefulW - w >= 0
                  THEN /\ it.line = lay.line
                       /\ Len(lay'.linesInfo) = Len(lay.linesInfo)
                  ELSE /\ it.line = lay.line + 1
                       /\ Len(lay'.linesInfo) = Len(lay.linesInfo) + 1
                       /\ lay'.linesInfo[lay.line + 1].remainW = lay.usefulW
                       /\ \A k \in 1..(lay.i - 1) : lay'.items[k].line < it.line]_vars
    /\ []((/\ lay.pc \in {"resolve", "paint", "done"}
           /\ lay.itens = ExampleItems
           /\ lay.o.w = 25 /\ lay.o.defaultItemW = 10 /\ lay.o.padding = 1
           /\ lay.o.ibp = 0)
          => [k \in 1..3 |-> lay.items[k].line] = <<0, 0, 1>>)

\* a measured call in which the last item kept on the first row left exactly
\* nothing of the row (remaining width minus resolved width = 0) and the next
\* item opened a second row
C10_Witness ==
    /\ lay.pc = "resolve"
    /\ lay.line >= 1
    /\ RowItems(0) # {}
    /\ lay.linesInfo[1].remainW = 0 - Gap(lay.o)

-----------------------------------------------------------------------------
(* Properties of the exits of drawRowLabelTexts, checked under LayoutSpec *)

Running == lay.pc \in {"measure", "resolve", "paint"}

\* the call has been left, by return or by an exception
Left == op.name = "drawRowLabelTexts" /\ ~Running

\* C11 as claimed: a drawRowLabelTexts call, with options or with none, does
\* not raise; once left it has laid the items out and returned the document.
C11_NoRaise ==
    Left => /\ op.msg # "TypeError"
            /\ lay.pc = "done"

\* C12 as claimed: the noPageBreak flag is true for the whole call and, on
\* every exit, failing ones included, again has the value it had on entry.
C12_FlagRestored ==
    /\ Running => noPageBreak = TRUE
    /\ Left => noPageBreak = lay.saved

-----------------------------------------------------------------------------
(* Properties of the paint pass of drawRowLabelTexts, checked under LayoutSpec *)

Returned == lay.pc = "done"

\* the strokes of the block border made by the call, in order
BoxDraws == SelectSeq(draws, LAMBDA s : s.id = 0)

BoxKinds == [k \in 1..Len(BoxDraws) |-> BoxDraws[k].kind]

\* top, n - 1 middles, bottom
BrokenKinds(n) ==
    [k \in 1..(n + 1) |-> IF k = 1 THEN "roundedRectUp"
                          ELSE IF k = n + 1 THEN "roundedRectDown"
                          ELSE "roundedRectMid"]

\* the page item k was painted after, as the paint log tells
PageBefore(k) == IF k = 1 THEN lay.page0 ELSE lay.painted[k - 1].page

\* the items painted right after a page break
BreakItems == {k \in 1..Len(lay.painted) : lay.painted[k].page > PageBefore(k)}

\* those of them that are on a row after the first
LaterRowBreaks == {k \in BreakItems : lay.painted[k].line > 0}

\* those requested after an item of the block was painted: they split the block
SplitBreaks == BreakItems \ {1}

\* the kinds of border strokes n breaks call for
KindsFor(n) == IF n = 0 THEN <<"roundedRect">> ELSE BrokenKinds(n)

\* C13 as claimed, a break being either any page break the call requested or
\* only one that split the block: with a box the border strokes of a call are
\* one complete rectangle when there was no break, else a top at the first
\* break, a middle at each later break and a bottom at the end; without a box
\* there is none.
C13_BorderPerBreak ==
    Returned =>
        IF lay.o.box
        THEN \/ BoxKinds = KindsFor(Cardinality(BreakItems))
             \/ BoxKinds = KindsFor(Cardinality(SplitBreaks))
        ELSE BoxDraws = <<>>

\* what the paint pass does instead: only a break requested at a row after
\* the first strokes a segment (a top at the first of them, a middle at each
\* later one, on the page being left); the one closing stroke is on the last
\* page, complete when no segment was stroked, else a bottom.
BorderPerLaterRowBreak ==
    Returned =>
        IF lay.o.box
        THEN LET n == Cardinality(LaterRowBreaks)
             IN /\ BoxKinds = KindsFor(n)
                /\ {BoxDraws[k].page : k \in 1..n}
                     = {lay.painted[k].page - 1 : k \in LaterRowBreaks}
                /\ Last(BoxDraws).page = page
        ELSE BoxDraws = <<>>

\* a Paint step that requested a page break
BreakStep == lay.pc = "paint" /\ lay'.pc = "paint" /\ page' = page + 1

\* C14 as claimed: after a page break of the paint pass the box origin y is the
\* new page's content start and the row cursor is the content start plus the
\* padding, but the bare content start when the break is at the first row.
C14_PaddingUnlessFirstRow ==
    [][BreakStep =>
          /\ lay'.boxInfo.y = MarginTop
          /\ lay'.cY = (IF lay'.currentLine = 0 THEN MarginTop
                        ELSE MarginTop + lay.o.padding)]_vars

\* C14, amended: after a page break of the paint pass the box origin y is the
\* new page's content start; the row cursor is the bare content start when the
\* break is at a row after the first, and the content start plus
\* padding + 2 * itemBox.padding when the break is at the block's first row.
C14_PaddingOnlyOnFirstRow ==
    [][BreakStep =>
          /\ lay'.boxInfo.y = MarginTop
          /\ lay'.cY = (IF lay'.currentLine = 0
                        THEN MarginTop + lay.o.padding + 2 * lay.o.ibp
                        ELSE MarginTop)
          /\ Last(lay'.painted).y = lay'.cY]_vars

\* an item of a later row has just been painted after a page break, in a block
\* with padding, and sits at the bare content start
C14_Witness ==
    /\ lay.pc = "paint"
    /\ lay.i > 1
    /\ (lay.i - 1) \in LaterRowBreaks
    /\ lay.o.padding > 0
    /\ lay.cY = MarginTop

\* C15: on normal return the cursor is at x = block origin x and y = bottom of
\* the last painted row (the y that row was painted at on the final page plus
\* its maxH; for an empty item list the top of the first row, whose maxH is 0),
\* and the fill color is 'black', whatever it was before the call and whatever
\* colors the items have.
C15_CursorAndColorOnReturn ==
    Returned =>
        /\ x = lay.o.x
        /\ y = (IF lay.painted = <<>>
                THEN lay.o.y + lay.o.padding + 2 * lay.o.ibp
                ELSE Last(lay.painted).y
                       + lay.linesInfo[Last(lay.painted).line + 1].maxH)
        /\ fillColor = "black"

\* a call returned that found another fill color, painted a colored item last
\* and went through a page break
C15_Witness ==
    /\ Returned
    /\ lay.fill0 # "black"
    /\ lay.items # <<>>
    /\ Last(lay.items).color # "black"
    /\ BreakItems # {}

ChainedOps == {"startRect", "stopRect", "tryAddPage", "drawRowLabelTexts"}

\* C16 as claimed: whenever one of startRect, stopRect, tryAddPage and
\* drawRowLabelTexts has been left, on whatever path, it returned the document
\* it was called on.
C16_ReturnsDocument ==
    (op.name \in ChainedOps /\ ~Running) => op.ret = "doc"

-----------------------------------------------------------------------------
(* Properties of tryAddPage and startRect, checked under Spec *)

\* the segment a page break strokes for the open record info, the cursor being
\* at cy on page pg
BreakSegment(info, cy, pg) ==
    [kind |-> IF info.state = 1 THEN "roundedRectUp" ELSE "roundedRectMid",
     id |-> info.id, x |-> info.x, y |-> info.y, w |-> info.w, h |-> cy - info.y,
     r |-> info.r, lw |-> info.lineWidth, page |-> pg]

StrokeArgs(s) ==
    [kind |-> s.kind, id |-> s.id, x |-> s.x, y |-> s.y, w |-> s.w, h |-> s.h,
     r |-> s.r, lw |-> s.lw, page |-> s.page]

\* C17: tryAddPage(minSize) adds exactly one page when page.maxY() minus the
\* cursor y is less than minSize, and otherwise adds none and leaves cursor,
\* page and rectangle stack as they were; when it adds a page every open
\* rectangle gets its segment (top if unbroken, else middle, up to the cursor)
\* and then has state 2 and y at the new page's content start.
C17_TryAddPage ==
    [][op'.name = "tryAddPage" =>
          IF PageMaxY - y < op'.minSize
          THEN /\ page' = page + 1
               /\ x' = MarginLeft /\ y' = MarginTop
               /\ Len(rects') = Len(rects)
               /\ \A i \in 1..Len(rects) :
                     rects'[i] = [rects[i] EXCEPT !.state = 2, !.y = MarginTop]
               /\ Len(draws') = Len(rects)
               /\ \A i \in 1..Len(rects) :
                     StrokeArgs(draws'[i]) = BreakSegment(rects[i], y, page)
          ELSE /\ UNCHANGED <<page, x, y, rects>>
               /\ draws' = <<>>]_vars

\* tryAddPage has just added a page with two rectangles open, one of them
\* broken before
C17_Witness ==
    /\ op.name = "tryAddPage"
    /\ Len(draws) = 2
    /\ draws[1].kind = "roundedRectMid"
    /\ draws[2].kind = "roundedRectUp"

\* a step leaves x, w, r and lineWidth of every record that stays in the stack
FrameStep ==
    \A i \in 1..Len(rects) :
        (i <= Len(rects') /\ rects'[i].id = rects[i].id) =>
            /\ rects'[i].x = rects[i].x
            /\ rects'[i].w = rects[i].w
            /\ rects'[i].r = rects[i].r
            /\ rects'[i].lineWidth = rects[i].lineWidth

\* startRect({x:50, y:100, w:400, r:8, lineWidth:2}), scaled to the page
SpanOpts == [x |-> 2, y |-> 2, w |-> 3, r |-> 2, lineWidth |-> 20, padding |-> 1]

\* the example: closed after two page breaks, it got a top, a middle and a bottom
SpanExample ==
    \A id \in 1..Len(life) :
        (life[id].opts = SpanOpts /\ Closed(id) /\ Breaks(id) = 2) =>
            [k \in 1..Len(life[id].segs) |-> life[id].segs[k].kind]
              = <<"roundedRectUp", "roundedRectMid", "roundedRectDown">>

\* every stroke uses the option values that startRect was given
UsesGiven ==
    \A k \in 1..Len(draws) :
        LET s == draws[k]
            opts == life[s.id].opts
        IN /\ "x" \in DOMAIN opts => s.x = opts.x
           /\ "w" \in DOMAIN opts => s.w = opts.w
           /\ "r" \in DOMAIN opts => s.r = opts.r
           /\ "lineWidth" \in DOMAIN opts => s.lw = opts.lineWidth
           /\ (s.kind = "roundedRectUp" /\ "y" \in DOMAIN opts) => s.y = opts.y

RecordedLw(opts) ==
    IF "lineWidth" \notin DOMAIN opts THEN LwDefault
    ELSE IF opts.lineWidth = 0 THEN LwFallback
    ELSE opts.lineWidth

\* every stroke uses the values startRect recorded
UsesRecorded ==
    \A k \in 1..Len(draws) :
        LET s == draws[k]
            opts == life[s.id].opts
        IN /\ s.x = (IF "x" \in DOMAIN opts /\ opts.x # 0 THEN opts.x ELSE life[s.id].x0)
           /\ s.w = (IF "w" \in DOMAIN opts /\ opts.w # 0 THEN opts.w ELSE PageUsefulW)
           /\ s.r = (IF "r" \in DOMAIN opts THEN opts.r ELSE 0)
           /\ s.lw = RecordedLw(opts)
           /\ s.kind = "roundedRectUp" => s.y = StartY(s.id)

-----------------------------------------------------------------------------
(* Properties of the options of drawRowLabelTexts, checked under LayoutSpec *)

NoWidthGiven == Running /\ Param(lay.options, "w", 0) = 0

Given(opts, f) == f \in DOMAIN opts /\ opts[f] # 0

PaddingMsg == "TODO, padding not implemented"

\* C20: startRect pushes exactly one record, in state 1, with x and y the
\* given values or else the cursor and w the given width or else the page's
\* usable width; it strokes nothing; a non-zero padding only logs a message,
\* the record being the one the other options alone determine.
C20_StartRectPushesOne ==
    [][op'.name = "startRect" =>
          LET opts == Last(life').opts
              rec == [id |-> Len(life) + 1,
                      state |-> 1,
                      x |-> IF Given(opts, "x") THEN opts.x ELSE x,
                      y |-> IF Given(opts, "y") THEN opts.y ELSE y,
                      w |-> IF Given(opts, "w") THEN opts.w
                            ELSE PageWidth - MarginLeft - MarginRight,
                      r |-> IF Given(opts, "r") THEN opts.r ELSE 0,
                      lineWidth |-> RecordedLw(opts)]
          IN /\ rects' = Append(rects, rec)
             /\ draws' = <<>>
             /\ SubSeq(life', 1, Len(life)) = life
             /\ Last(life').segs = <<>>
             /\ op'.msg = (IF Given(opts, "padding") THEN PaddingMsg ELSE "")
             /\ op'.ret = "doc"
             /\ UNCHANGED <<x, y, page>>]_vars

\* startRect with a padding has just pushed a second record, away from the
\* page's content start
C20_Witness ==
    /\ op.name = "startRect"
    /\ op.msg = PaddingMsg
    /\ Len(rects) = 2
    /\ y # MarginTop

-----------------------------------------------------------------------------
(* Rows and pages in the paint pass, checked under LayoutSpec *)

\* item k of the paint log is the first of its row
FirstOfRow(k) == k = 1 \/ lay.painted[k - 1].line # lay.painted[k].line

\* C21 as claimed: in the paint pass a page break is requested only before the
\* first item of a row, so at most once per row, and all the items of one row
\* are painted on the same page, whatever the height of the row.
C21_RowOnOnePage ==
    lay.pc \in {"paint", "done"} =>
        /\ \A k \in BreakItems : FirstOfRow(k)
        /\ \A j, k \in 1..Len(lay.painted) :
              lay.painted[j].line = lay.painted[k].line
                  => lay.painted[j].page = lay.painted[k].page

\* the height of the row item k of the paint log is on
RowMaxH(k) == lay.linesInfo[lay.painted[k].line + 1].maxH

\* the content height of an empty page
ContentH == PageMaxY - MarginTop

\* the offset of the first row from the content start: the block's top padding
TopGap(k) == IF lay.painted[k].line = 0 THEN Gap(lay.o) ELSE 0

\* C22 as claimed: a row whose maxH fits between the content start and
\* page.maxY() of an empty page is painted with row top + maxH <= page.maxY(),
\* after a page break or not.
C22_FittingRowStaysOnPage ==
    lay.pc \in {"paint", "done"} =>
        \A k \in 1..Len(lay.painted) :
            RowMaxH(k) <= ContentH => lay.painted[k].y + RowMaxH(k) <= PageMaxY

\* C22 amended: a row is painted with row top + maxH <= page.maxY() when its
\* maxH fits between its top on an empty page and page.maxY(), that top being
\* the content start for a row after the first and the content start plus
\* padding + 2 * itemBox.padding for the first row.
C22_FittingRowWithGapStaysOnPage ==
    lay.pc \in {"paint", "done"} =>
        \A k \in 1..Len(lay.painted) :
            RowMaxH(k) + TopGap(k) <= ContentH
                => lay.painted[k].y + RowMaxH(k) <= PageMaxY

\* a call returned that broke the page before a first row with a top padding
\* and before a later row, both rows fitting an empty page and painted on it
C22_Witness ==
    /\ Returned
    /\ \E j, k \in BreakItems :
          /\ lay.painted[j].line = 0
          /\ TopGap(j) > 0
          /\ lay.painted[k].line > 0
          /\ \A n \in {j, k} :
                /\ RowMaxH(n) + TopGap(n) <= ContentH
                /\ lay.painted[n].y + RowMaxH(n) <= PageMaxY

-----------------------------------------------------------------------------
(* The suppression flag around the border redraw, checked under Spec *)

\* the strokes of the last call that the beforePageAdded handler made
CallbackDraws ==
    SelectSeq(draws, LAMBDA s : s.id >= 1 /\ s.kind \in {"roundedRectUp", "roundedRectMid"})

\* C23: every border segment of onBeforePageAdded is stroked with noPageBreak
\* true, and a page break leaves the flag as it found it, also when the flag
\* was already true (the callback running inside a suppression scope, as that
\* of drawRowLabelTexts): the redraw adds exactly the one page and the scope
\* stays open.
C23_FlagAroundRedraw ==
    /\ [](\A k \in 1..Len(CallbackDraws) : CallbackDraws[k].npb)
    /\ [][page' # page => (noPageBreak' = noPageBreak /\ page' = page + 1)]_vars

\* a page was added inside a suppression scope with a border to redraw
C23_Witness ==
    /\ op.name \in {"addPage", "tryAddPage"}
    /\ noPageBreak
    /\ CallbackDraws # <<>>

-----------------------------------------------------------------------------
(* The stack under startRect and stopRect, checked under Spec *)

\* the stopRect calls made on a non-empty stack: each closed one rectangle
ClosedIds == {id \in 1..Len(life) : Closed(id)}

\* C24: startRect and stopRect leave every record but the one pushed or popped
\* as it was (state, x, y, w, r, lineWidth) and in its place, and the depth of
\* the stack is the number of startRect calls minus the number of stopRect
\* calls made on a non-empty stack, never negative.
C24_OthersUntouched ==
    /\ [][op'.name = "startRect" =>
             /\ Len(rects') = Len(rects) + 1
             /\ \A i \in 1..Len(rects) : rects'[i] = rects[i]]_vars
    /\ [][op'.name = "stopRect" =>
             /\ Len(rects') = (IF rects = <<>> THEN 0 ELSE Len(rects) - 1)
             /\ \A i \in 1..Len(rects') : rects'[i] = rects[i]
             /\ Cardinality(ClosedIds') =
                   Cardinality(ClosedIds) + (IF rects = <<>> THEN 0 ELSE 1)]_vars
    /\ [](Len(rects) = Len(life) - Cardinality(ClosedIds))

\* stopRect has just closed the inner of two rectangles; the outer one, broken
\* by a page break, is still in the stack
C24_Witness ==
    /\ op.name = "stopRect"
    /\ Len(life) = 2
    /\ ClosedIds = {2}
    /\ Len(rects) = 1
    /\ rects[1].state = 2

-----------------------------------------------------------------------------
(* The two passes of drawRowLabelTexts, checked under LayoutSpec *)

\* the number of items the call has painted
PaintedCount(L) == IF "painted" \in DOMAIN L THEN Len(L.painted) ELSE 0

\* every item has its row, its final width and its heights
AllAssigned ==
    /\ Len(lay.items) = Len(lay.itens)
    /\ \A k \in 1..Len(lay.items) :
          LET it == lay.items[k]
              li == lay.linesInfo[it.line + 1]
          IN /\ it.line \in Rows
             /\ it.w = (IF it.autoW
                        THEN lay.o.defaultItemW * Den + (li.remainW * Den) \div li.countAuto
                        ELSE ResolvedW(lay.itens[k], lay.o) * Den)
             /\ it.hText \in TextHeights
             /\ lay.o.hasLabel => it.hLabel \in LabelHeights

\* what the paint pass reads of the items and of the rows
Layout(L) ==
    [items |-> [k \in 1..Len(L.items) |->
                   [line |-> L.items[k].line, w |-> L.items[k].w,
                    hLabel |-> L.items[k].hLabel, hText |-> L.items[k].hText]],
     maxH |-> [l \in 1..Len(L.linesInfo) |-> L.linesInfo[l].maxH]]

\* C25: drawRowLabelTexts paints no item and requests no page break before
\* every item has its row, its final width and its heights, and from the first
\* step of the paint pass on no item's row, width, label height or text height
\* and no row's maxH changes.
C25_TwoPass ==
    /\ [][(PaintedCount(lay') > PaintedCount(lay) \/ page' # page)
              => (lay.pc = "paint" /\ AllAssigned)]_vars
    /\ [][lay.pc = "paint" => Layout(lay') = Layout(lay)]_vars

\* a call returned that painted three items on two rows, with auto widths
\* resolved, after a page break
C25_Witness ==
    /\ Returned
    /\ Len(lay.painted) = 3
    /\ lay.line = 1
    /\ \E k \in 1..3 : lay.items[k].autoW /\ lay.items[k].w > lay.o.defaultItemW * Den
    /\ BreakItems # {}

-----------------------------------------------------------------------------
(* Row heights, checked under LayoutSpec *)

\* where item k of the paint log ends: the bottom of its text
ItemBottom(k) == lay.painted[k].y + lay.items[k].hLabel + lay.items[k].hText

TwoRowsOnOnePage ==
    /\ Returned
    /\ \E i, j, k \in 1..Len(lay.painted) :
          /\ lay.painted[i].line = 0 /\ lay.painted[j].line = 0
          /\ lay.items[i].hText # lay.items[j].hText
          /\ lay.painted[k].line = 1
          /\ k \notin BreakItems
          /\ lay.painted[k].page = lay.painted[i].page
          /\ lay.painted[k].page = lay.painted[j].page

-----------------------------------------------------------------------------
(* The states of the records, checked under Spec *)

\* the record stopRect popped for rectangle id, as it left it
PoppedRecord(id) == life[id].popped[1]

\* C27: every record in the stack has state 1 or 2 and state 0 is that of the
\* records stopRect has popped; a record is pushed with state 1, a page break
\* puts every record of the stack in state 2, stopRect takes the popped record
\* from 1 or 2 to 0, and no other step changes a state: never 2 back to 1.
C27_StateMoves ==
    /\ [](/\ \A i \in 1..Len(rects) : rects[i].state \in {1, 2}
          /\ \A id \in 1..Len(life) :
                IF Closed(id)
                THEN PoppedRecord(id).state = 0 /\ id \notin OpenIds
                ELSE life[id].popped = <<>> /\ id \in OpenIds)
    /\ [][\A i \in 1..Len(rects') :
             IF i > Len(rects) THEN rects'[i].state = 1
             ELSE /\ rects'[i].id = rects[i].id
                  /\ rects'[i].state = (IF page' # page THEN 2 ELSE rects[i].state)]_vars
    /\ [][Len(rects') < Len(rects) =>
             /\ op'.name = "stopRect"
             /\ Last(rects).state \in {1, 2}
             /\ life'[Last(rects).id].popped = <<[Last(rects) EXCEPT !.state = 0]>>]_vars

\* one rectangle was closed unbroken (1 -> 0), the next one was broken by a
\* page break and then closed (1 -> 2 -> 0)
C27_Witness ==
    /\ op.name = "stopRect"
    /\ Len(life) = 2
    /\ rects = <<>>
    /\ PoppedRecord(1).state = 0 /\ PoppedRecord(2).state = 0
    /\ Len(life[1].segs) = 1
    /\ life[1].segs[1].kind = "roundedRect"
    /\ Len(life[2].segs) = 2
    /\ life[2].segs[1].kind = "roundedRectUp"
    /\ life[2].segs[2].kind = "roundedRectDown"

-----------------------------------------------------------------------------
(* The corner radius of the segments, checked under LayoutSpec *)

\* the r kept for the rectangle a stroke belongs to: the record's r for a
\* rectangle of the tracker, options.box.radius for the block border
StoredR(s) == IF s.id = 0 THEN lay.options.box.radius
              ELSE Param(life[s.id].opts, "r", 0)

\* where the segment of stroke s starts: where the rectangle was opened on the
\* page it was opened on, the content start on a later page
SegmentTop(s) ==
    IF s.id = 0
    THEN (IF s.page > lay.page0 THEN MarginTop ELSE lay.o.y)
    ELSE (IF s.page > life[s.id].start THEN MarginTop ELSE life[s.id].y0)

=============================================================================
